---- MODULE Spec2Model ----
(***************************************************************************)
(* EventsMonitor of aquarius (aquarius/events/events_monitor.py): the      *)
(* background driver that scans block ranges for events, dispatches them   *)
(* to the processors and advances the persisted last_block checkpoint.     *)
(*                                                                         *)
(* The specifications:                                                      *)
(*   Spec        the monitor: construction, start/stop, driver threads,    *)
(*               iterations, the checkpoint document and the asset index;  *)
(*   SpecRange   one call of process_block_range on a batch of raw logs;   *)
(*   SpecChunks  one call of get_event_logs(kind, a, b, c);                *)
(*   SpecLive    Spec with the scheduling of the threads;                  *)
(*   SpecProofs  one call of check_metadata_proofs (proof_checker.py);     *)
(*   SpecRegistry  the "chains" document under the monitors of several     *)
(*               chains;                                                   *)
(*   SpecRead    one call of get_last_processed_block;                     *)
(*   SpecSleep   the poll interval __init__ computes from the environment. *)
(***************************************************************************)
EXTENDS Integers, Sequences, FiniteSets, Bags, TLC

VARIABLES
    last_block_doc,   \* the "events_last_block_<chain>" document: NotFound or its last_block
    assets,           \* ids of the documents of this chain in the asset index
    head,             \* web3.eth.block_number
    monitor_is_on,    \* EventsMonitor._monitor_is_on
    purgatory,        \* EventsMonitor.purgatory is not None
    threads,          \* the bag of the run_monitor threads of this instance, each with its position
    coveredTo,        \* history: every block StartBlock..coveredTo was in a completed query of every kind
    last,             \* history: the operation that produced this state, with what it observed
    pbr,              \* SpecRange: the call of process_block_range
    gel,              \* SpecChunks: the call of get_event_logs
    cmp,              \* SpecProofs: the call of check_metadata_proofs
    glp,              \* SpecRead: the call of get_last_processed_block
    mst,              \* SpecSleep: the computation of _monitor_sleep_time in __init__
    chains_doc,       \* the chain ids of the "chains" document (none: no document)
    registered        \* history: the chain ids whose registration was written

vars == <<last_block_doc, assets, head, monitor_is_on, purgatory, threads, coveredTo, last, pbr, gel, cmp, glp, mst, chains_doc, registered>>

(***************************************************************************)
(* Bounds of the model.                                                    *)
(***************************************************************************)
MaxThreads == 2      \* run_monitor threads spawned between two restarts
MaxAssets == 1       \* contract addresses (one document each)
MaxEvents == 4       \* raw logs of one kind in one block range (SpecRange)
MaxBlock == 6        \* from_block, to_block of get_event_logs (SpecChunks)
MaxChunk == 4        \* chunk_size of get_event_logs (SpecChunks)
MaxIds == 2          \* validator accounts (SpecProofs)
MaxProofs == 2       \* proofs of one event, entries of the allow-list (SpecProofs)
MaxLen == 3          \* characters of OCN_EVENTS_MONITOR_QUITE_TIME (SpecSleep)
MaxStored == 60      \* last_block of the checkpoint document (SpecRead)
MaxChains == 4       \* chain ids of the monitors that share the store (SpecRegistry)

(***************************************************************************)
(* Configuration and program constants.                                    *)
(***************************************************************************)
chunk_size == 1000              \* get_event_logs(..., chunk_size=1000)
blockchain_chunk_size == 1000   \* BlockProcessingClass.blockchain_chunk_size
StartBlock == 0                 \* the configured start block
get_defined_block == StartBlock \* get_defined_block(chain_id)
NotFound == -1                  \* es.get raises NotFoundError: no checkpoint document
chain_id == 1                   \* web3.eth.chain_id of this monitor

\* the values of web3.eth.block_number: no block, less than a chunk, more than one
Heads == {0, 50, blockchain_chunk_size + 50}

Min(a, b) == IF a <= b THEN a ELSE b
Max(a, b) == IF a >= b THEN a ELSE b

(***************************************************************************)
(* get_event_logs: the (fromBlock, toBlock) of the get_logs calls.         *)
(***************************************************************************)
RECURSIVE get_event_logs_loop(_, _, _, _, _)
get_event_logs_loop(_from, _to, to_block, size, all) ==
    IF _from <= to_block
    THEN get_event_logs_loop(_to + 1, Min(_to + 1 + size - 1, to_block), to_block, size,
                             Append(all, <<_from, _to>>))
    ELSE all

\* the first _to without its "- 1"
get_event_logs_m(from_block, to_block, size) ==
    get_event_logs_loop(from_block, Min(from_block + size, to_block), to_block, size, <<>>)

get_event_logs(from_block, to_block, size) ==
    get_event_logs_loop(from_block, Min(from_block + size - 1, to_block), to_block, size, <<>>)

(***************************************************************************)
(* process_current_blocks: the (from_block, to_block) of the               *)
(* process_block_range calls for a stored last_block and a chain head.     *)
(***************************************************************************)
RECURSIVE process_current_blocks_loop(_, _, _, _)
process_current_blocks_loop(start_block_chunk, end_block_chunk, current_block, calls) ==
    IF end_block_chunk < current_block
    THEN process_current_blocks_loop(end_block_chunk, end_block_chunk + blockchain_chunk_size,
                                     current_block,
                                     Append(calls, <<start_block_chunk, end_block_chunk>>))
    ELSE Append(calls, <<start_block_chunk, current_block>>)

process_current_blocks(last_block, current_block) ==
    IF current_block = 0 \/ current_block <= last_block
    THEN <<>>
    ELSE process_current_blocks_loop(last_block, last_block, current_block, <<>>)

(***************************************************************************)
(* The checkpoint store.                                                   *)
(***************************************************************************)
\* without the except clause: the NotFoundError leaves the function
get_last_processed_block_m(doc, readOk) ==
    IF ~readOk THEN get_defined_block
    ELSE IF doc >= 0 THEN doc
    ELSE NotFound

\* readOk = FALSE: es.get raises something other than NotFoundError
get_last_processed_block(doc, readOk) ==
    IF ~readOk THEN get_defined_block
    ELSE IF doc = NotFound THEN get_defined_block
    ELSE IF doc >= 0 THEN doc
    ELSE get_defined_block

WriteOutcomes == {"ok", "RequestError", "error"}

\* without the except clause for RequestError
store_last_processed_block_r(doc, block, readOk, write) ==
    IF block <= get_last_processed_block(doc, readOk) THEN [doc |-> doc, status |-> "noop"]
    ELSE IF write = "ok" THEN [doc |-> block, status |-> "written"]
    ELSE [doc |-> doc, status |-> "raised"]

\* without the comparison with the stored block
store_last_processed_block_m(doc, block, readOk, write) ==
    IF write = "ok" THEN [doc |-> block, status |-> "written"]
    ELSE IF write = "RequestError" THEN [doc |-> doc, status |-> "rejected"]
    ELSE [doc |-> doc, status |-> "raised"]

store_last_processed_block(doc, block, readOk, write) ==
    LET stored_block == get_last_processed_block(doc, readOk)
    IN  IF block <= stored_block THEN [doc |-> doc, status |-> "noop"]
        ELSE IF write = "ok" THEN [doc |-> block, status |-> "written"]
        ELSE IF write = "RequestError" THEN [doc |-> doc, status |-> "rejected"]
        ELSE [doc |-> doc, status |-> "raised"]

\* the outcomes of es.index, when store_last_processed_block calls it
Writes(doc, block, readOk) ==
    IF block <= get_last_processed_block(doc, readOk) THEN {"ok"} ELSE WriteOutcomes

(***************************************************************************)
(* The chain registry.                                                     *)
(***************************************************************************)
\* readOk = FALSE: es.get raises something other than NotFoundError
add_chain_id_to_chains_list(doc, id, readOk, write) ==
    LET chains == IF readOk THEN doc ELSE {}
    IN  IF write = "ok" THEN [doc |-> chains \cup {id}, status |-> "written"]
        ELSE IF write = "RequestError" THEN [doc |-> doc, status |-> "rejected"]
        ELSE [doc |-> doc, status |-> "raised"]

(***************************************************************************)
(* Raw logs and their dispatch.  A raw log carries the contract address it *)
(* was emitted by and the call that raises for it, if any:                 *)
(*   "receipt"    web3.eth.get_transaction_receipt raises,                 *)
(*   "decode"     processReceipt(...)[0] raises (no event of the kind),    *)
(*   "processor"  the Processor's constructor or process() raises.         *)
(***************************************************************************)
event_names == <<"EVENT_METADATA_CREATED", "EVENT_METADATA_UPDATED", "EVENT_METADATA_STATE",
                 "EVENT_ORDER_STARTED", "EVENT_EXCHANGE_CREATED", "EVENT_EXCHANGE_RATE_CHANGED",
                 "EVENT_DISPENSER_CREATED", "EVENT_TOKEN_URI_UPDATE">>
Kinds == 1..Len(event_names)
Faults == {"none", "receipt", "decode", "processor"}
Addresses == 1..MaxAssets
Event(a, f) == [address |-> a, fault |-> f]

\* one pass of the loop body of handle_regular_event_processor, without its try
regular_event_m(ev) ==
    IF ev.fault = "none" THEN "processed" ELSE ev.fault

\* one pass of the loop body of handle_regular_event_processor
regular_event(ev) ==
    IF ev.fault = "receipt" THEN "receipt"
    ELSE IF ev.fault = "decode" THEN "decode"
    ELSE IF ev.fault = "processor" THEN "caught"
    ELSE "processed"

\* one pass of the inner loop body of handle_price_change
price_change_event(event_name, ev) ==
    LET fetches == event_name \in {"EVENT_EXCHANGE_CREATED", "EVENT_EXCHANGE_RATE_CHANGED",
                                   "EVENT_DISPENSER_CREATED"}
        decodes == event_name \in {"EVENT_EXCHANGE_RATE_CHANGED", "EVENT_DISPENSER_CREATED"}
    IN  IF fetches /\ ev.fault = "receipt" THEN "receipt"
        ELSE IF decodes /\ ev.fault = "decode" THEN "decode"
        ELSE IF ev.fault = "processor" THEN "caught"
        ELSE "processed"

\* one pass of the loop body of handle_token_uri_update
token_uri_event(ev) ==
    IF ev.fault = "processor" THEN "caught" ELSE "processed"

dispatch_event(k, ev) ==
    IF k <= 3 THEN regular_event(ev)
    ELSE IF k <= 7 THEN price_change_event(event_names[k], ev)
    ELSE token_uri_event(ev)

\* the loop over the logs of one kind: stops at the first pass that raises
RECURSIVE for_events(_, _, _, _)
for_events(k, events, i, r) ==
    IF i > Len(events) THEN r
    ELSE LET o == dispatch_event(k, events[i])
         IN  IF o \in {"processed", "caught"}
             THEN for_events(k, events, i + 1,
                      [r EXCEPT !.handed = @ \cup {i},
                                !.processed = IF o = "processed" THEN @ \cup {i} ELSE @])
             ELSE [r EXCEPT !.raised = o]

handle_events(k, events) ==
    for_events(k, events, 1, [raised |-> "none", handed |-> {}, processed |-> {}])

(***************************************************************************)
(* process_block_range for from_block <= to_block, up to its call of       *)
(* store_last_processed_block.  sc.logs[k] are the logs get_event_logs     *)
(* returns for kind k, sc.fail the kind whose get_logs raises (0: none).   *)
(***************************************************************************)
NoLogs == [k \in Kinds |-> <<>>]
NoHanded == [k \in Kinds |-> {}]

RECURSIVE process_block_range_kinds(_, _, _)
process_block_range_kinds(k, sc, r) ==
    IF k > Len(event_names) THEN r
    ELSE IF sc.fail = k THEN [r EXCEPT !.raised = "get_logs"]
    ELSE LET h == handle_events(k, sc.logs[k])
             r2 == [r EXCEPT !.queried = k,
                             !.handed[k] = h.handed,
                             !.created = IF k = 1
                                         THEN @ \cup {sc.logs[k][i].address : i \in h.processed}
                                         ELSE @]
         IN  IF h.raised # "none" THEN [r2 EXCEPT !.raised = h.raised]
             ELSE process_block_range_kinds(k + 1, sc, r2)

\* lines 170-195; the store flag says whether store_last_processed_block(to_block) is reached
process_block_range_body(sc) ==
    LET r == process_block_range_kinds(1, sc, [raised |-> "none", queried |-> 0,
                                               handed |-> NoHanded, created |-> {}])
    IN  [raised |-> r.raised, queried |-> r.queried, handed |-> r.handed,
         created |-> r.created, store |-> (r.raised = "none")]

\* store_last_processed_block in a finally clause
process_block_range_m(sc) ==
    [process_block_range_body(sc) EXCEPT !.store = TRUE]

process_block_range(sc) ==
    process_block_range_body(sc)

\* blocks StartBlock..c are covered; the sub-ranges of a completed scan extend it
RECURSIVE Cover(_, _)
Cover(c, chunks) ==
    IF chunks = <<>> THEN c
    ELSE LET q == Head(chunks)
         IN  Cover(IF q[1] <= c + 1 THEN Max(c, q[2]) ELSE c, Tail(chunks))

(***************************************************************************)
(* Spec: the monitor.                                                      *)
(***************************************************************************)
Idle == [pc |-> "idle"]

\* a thread: its position, the process_block_range calls its iteration has still to make,
\* and the last_block its iteration started from
NewThread == [pc |-> "loop", ranges |-> <<>>, last_block |-> NotFound]
\* a thread between process_current_blocks and the purgatory refresh
Scanned == [pc |-> "scanned", ranges |-> <<>>, last_block |-> NotFound]
\* the end of process_current_blocks as the end of do_run_monitor
Position_m(ranges, last_block) ==
    IF ranges = <<>> THEN NewThread
    ELSE [pc |-> "range", ranges |-> ranges, last_block |-> last_block]
\* where a thread is with these process_block_range calls left in its iteration
Position(ranges, last_block) ==
    IF ranges = <<>> THEN Scanned
    ELSE [pc |-> "range", ranges |-> ranges, last_block |-> last_block]
Threads == BagToSet(threads)
Moved(th, th2) == (threads (-) SetToBag({th})) (+) SetToBag({th2})
\* a thread is inside an iteration from the check of _monitor_is_on to the end of do_run_monitor
InIteration(th) == th.pc \in {"range", "scanned"}

\* history: the operation, _monitor_is_on as start_events_monitor or do_run_monitor found it, the
\* exception that ended the operation, and of its call of store_last_processed_block
\* (store: "none" if it made none) whether the read succeeded and what es.index did;
\* refreshed: the operation called purgatory.update_lists
Last(op, on, raised, store, readOk, write) ==
    [op |-> op, on |-> on, raised |-> raised, store |-> store, readOk |-> readOk,
     write |-> write, refreshed |-> FALSE]
Op(op) == Last(op, FALSE, "none", "none", TRUE, "ok")

\* what the monitor's state depends on in the result of process_block_range
Outcome(r) == [raised |-> r.raised, scanned |-> (r.queried = Len(event_names)),
               created |-> r.created, store |-> r.store]

\* what one call of process_block_range finds on the chain: no log, one log
\* of one kind, or a get_logs call that raises
MonitorScenarios ==
    {[logs |-> NoLogs, fail |-> f] : f \in {0} \cup Kinds}
    \cup {[logs |-> [NoLogs EXCEPT ![k] = <<Event(a, f)>>], fail |-> 0] :
            k \in Kinds, a \in Addresses, f \in Faults}

MonitorOutcomes == {Outcome(process_block_range(sc)) : sc \in MonitorScenarios}

Init ==
    /\ last_block_doc = NotFound
    /\ assets = {}
    /\ head = 0
    /\ monitor_is_on = FALSE
    /\ purgatory \in BOOLEAN
    /\ threads = EmptyBag
    /\ coveredTo = StartBlock - 1
    /\ last = Op("init")
    /\ pbr = Idle
    /\ gel = Idle
    /\ cmp = Idle
    /\ glp = Idle
    /\ mst = Idle
    /\ chains_doc = {chain_id}
    /\ registered = {chain_id}

\* web3.eth.block_number grows
new_block ==
    /\ \E h \in Heads :
         /\ h > head
         /\ head' = h
    /\ last' = Op("new_block")
    /\ UNCHANGED <<last_block_doc, assets, monitor_is_on, purgatory, threads, coveredTo, pbr, gel, cmp, glp, mst, chains_doc, registered>>

\* without the check of _monitor_is_on
start_events_monitor_m ==
    /\ BagCardinality(threads) < MaxThreads
    /\ threads' = threads (+) SetToBag({NewThread})
    /\ monitor_is_on' = TRUE
    /\ last' = [Op("start_events_monitor") EXCEPT !.on = monitor_is_on]
    /\ UNCHANGED <<last_block_doc, assets, head, purgatory, coveredTo, pbr, gel, cmp, glp, mst, chains_doc, registered>>

start_events_monitor ==
    /\ IF monitor_is_on
       THEN UNCHANGED <<threads, monitor_is_on>>
       ELSE /\ BagCardinality(threads) < MaxThreads
            /\ threads' = threads (+) SetToBag({NewThread})
            /\ monitor_is_on' = TRUE
    /\ last' = [Op("start_events_monitor") EXCEPT !.on = monitor_is_on]
    /\ UNCHANGED <<last_block_doc, assets, head, purgatory, coveredTo, pbr, gel, cmp, glp, mst, chains_doc, registered>>

stop_monitor ==
    /\ monitor_is_on' = FALSE
    /\ last' = Op("stop_monitor")
    /\ UNCHANGED <<last_block_doc, assets, head, purgatory, threads, coveredTo, pbr, gel, cmp, glp, mst, chains_doc, registered>>

\* without the check of _monitor_is_on
do_run_monitor_m(th) ==
    /\ th.pc = "loop"
    /\ \E readOk \in BOOLEAN :
         LET last_block == get_last_processed_block(last_block_doc, readOk)
             calls == process_current_blocks(last_block, head)
         IN  threads' = Moved(th, Position(calls, last_block))
    /\ last' = [Op("do_run_monitor") EXCEPT !.on = monitor_is_on]
    /\ UNCHANGED <<last_block_doc, assets, head, monitor_is_on, purgatory, coveredTo, pbr, gel, cmp, glp, mst, chains_doc, registered>>

\* do_run_monitor up to the first process_block_range of process_current_blocks
do_run_monitor(th) ==
    /\ th.pc = "loop"
    /\ IF ~monitor_is_on
       THEN UNCHANGED threads
       ELSE \E readOk \in BOOLEAN :
              LET last_block == get_last_processed_block(last_block_doc, readOk)
                  calls == process_current_blocks(last_block, head)
              IN  threads' = Moved(th, Position(calls, last_block))
    /\ last' = [Op("do_run_monitor") EXCEPT !.on = monitor_is_on]
    /\ UNCHANGED <<last_block_doc, assets, head, monitor_is_on, purgatory, coveredTo, pbr, gel, cmp, glp, mst, chains_doc, registered>>

\* the next process_block_range call of process_current_blocks
ProcessBlockRange(th) ==
    /\ th.pc = "range"
    /\ LET from_block == Head(th.ranges)[1]
           to_block == Head(th.ranges)[2]
           chunks == get_event_logs(from_block, to_block, chunk_size)
       IN  IF from_block > to_block
           THEN /\ threads' = Moved(th, Position(Tail(th.ranges), th.last_block))
                /\ last' = Op("process_block_range")
                /\ UNCHANGED <<assets, coveredTo, last_block_doc>>
           ELSE
           \E r \in MonitorOutcomes :
           \E readOk \in IF r.store THEN BOOLEAN ELSE {TRUE} :
           \E write \in IF r.store THEN Writes(last_block_doc, to_block, readOk) ELSE {"ok"} :
             LET st == IF r.store
                       THEN store_last_processed_block(last_block_doc, to_block, readOk, write)
                       ELSE [doc |-> last_block_doc, status |-> "none"]
                 raised == IF r.raised # "none" THEN r.raised
                           ELSE IF st.status = "raised" THEN "store" ELSE "none"
                 rest == IF raised # "none" THEN <<>> ELSE Tail(th.ranges)
             IN  /\ assets' = assets \cup r.created
                 /\ coveredTo' = IF r.scanned
                                 THEN Cover(coveredTo, chunks) ELSE coveredTo
                 /\ last_block_doc' = st.doc
                 /\ threads' = Moved(th, Position(rest, th.last_block))
                 /\ last' = Last("process_block_range", FALSE, raised, st.status, readOk, write)
    /\ UNCHANGED <<head, monitor_is_on, purgatory, pbr, gel, cmp, glp, mst, chains_doc, registered>>

\* without the try around purgatory.update_lists
update_purgatory_m(th) ==
    /\ th.pc = "scanned"
    /\ \E ok \in IF purgatory THEN BOOLEAN ELSE {TRUE} :
         /\ threads' = IF ok THEN Moved(th, NewThread) ELSE threads (-) SetToBag({th})
         /\ last' = [Op("update_purgatory") EXCEPT !.refreshed = purgatory,
                                                    !.raised = IF ok THEN "none" ELSE "update_lists"]
    /\ UNCHANGED <<last_block_doc, assets, head, monitor_is_on, purgatory, coveredTo, pbr, gel, cmp, glp, mst, chains_doc, registered>>

\* the rest of do_run_monitor (the purgatory refresh), then time.sleep in run_monitor
update_purgatory(th) ==
    /\ th.pc = "scanned"
    /\ threads' = Moved(th, NewThread)
    /\ \E ok \in IF purgatory THEN BOOLEAN ELSE {TRUE} :
         last' = [Op("update_purgatory") EXCEPT !.refreshed = purgatory,
                                                !.raised = IF ok THEN "none" ELSE "update_lists"]
    /\ UNCHANGED <<last_block_doc, assets, head, monitor_is_on, purgatory, coveredTo, pbr, gel, cmp, glp, mst, chains_doc, registered>>

\* reset_chain: kept are the assets whose delete raises
reset_chain(doc, kept, readOk, write) ==
    [assets |-> kept, st |-> store_last_processed_block(doc, StartBlock, readOk, write)]

\* the process is started again on the same store: EventsMonitor.__init__
EventsMonitor_init(clean) ==
    /\ threads' = EmptyBag
    /\ monitor_is_on' = FALSE
    /\ \E c \in {add_chain_id_to_chains_list(chains_doc, chain_id, readOk, write) :
                    readOk \in BOOLEAN, write \in WriteOutcomes} :
         /\ c.status # "raised"
         /\ chains_doc' = c.doc
         /\ registered' = IF c.status = "written" THEN registered \cup {chain_id}
                           ELSE registered
    /\ IF clean
       THEN \E kept \in SUBSET assets, readOk \in BOOLEAN :
            \E write \in Writes(last_block_doc, StartBlock, readOk) :
              LET r == reset_chain(last_block_doc, kept, readOk, write)
              IN  /\ r.st.status # "raised"
                  /\ assets' = r.assets
                  /\ last_block_doc' = r.st.doc
                  /\ last' = Last("clean_start", FALSE, IF kept = {} THEN "none" ELSE "delete",
                                  r.st.status, readOk, write)
       ELSE /\ UNCHANGED <<assets, last_block_doc>>
            /\ last' = Op("restart")
    /\ UNCHANGED <<head, purgatory, coveredTo, pbr, gel, cmp, glp, mst>>

Next ==
    \/ new_block
    \/ start_events_monitor
    \/ stop_monitor
    \/ \E th \in Threads : do_run_monitor(th)
    \/ \E th \in Threads : ProcessBlockRange(th)
    \/ \E th \in Threads : update_purgatory(th)
    \/ \E clean \in BOOLEAN : EventsMonitor_init(clean)

Spec == Init /\ [][Next]_vars

(***************************************************************************)
(* SpecLive: the monitor with the scheduling of its threads.  While some   *)
(* thread can take a step of a kind, a step of that kind is taken: the     *)
(* scheduler runs the threads, the RPC and store calls return or raise,    *)
(* and time.sleep ends.                                                    *)
(***************************************************************************)
Fairness ==
    /\ WF_vars(\E th \in Threads : do_run_monitor(th))
    /\ WF_vars(\E th \in Threads : ProcessBlockRange(th))
    /\ WF_vars(\E th \in Threads : update_purgatory(th))

SpecLive == Init /\ [][Next]_vars /\ Fairness

(***************************************************************************)
(* SpecRange: one call of process_block_range(from_block, to_block) on a   *)
(* fresh store.  One kind has any batch of up to MaxEvents logs, every     *)
(* other kind has the same batch of at most one log.                       *)
(***************************************************************************)
Batches == UNION {[1..n -> {Event(1, f) : f \in Faults}] : n \in 0..MaxEvents}
OtherBatches == {<<>>, <<Event(1, "none")>>, <<Event(1, "processor")>>}
RangeScenarios ==
    {[logs |-> [k2 \in Kinds |-> IF k2 = k THEN b ELSE o], fail |-> f] :
        k \in Kinds, b \in Batches, o \in OtherBatches, f \in {0} \cup Kinds}
RangeInputs == {<<0, 1000>>, <<1000, 1050>>, <<1000, 999>>}

\* a fresh store and an instance that was not started
InitCall ==
    /\ Init
    /\ purgatory = FALSE

call_process_block_range ==
    /\ pbr.pc = "idle"
    /\ \E rng \in RangeInputs :
         LET from_block == rng[1]
             to_block == rng[2]
         IN  IF from_block > to_block
             THEN /\ pbr' = [pc |-> "returned", from_block |-> from_block, to_block |-> to_block,
                             sc |-> [logs |-> NoLogs, fail |-> 0], handed |-> NoHanded,
                             raised |-> "none", store |-> "none"]
                  /\ UNCHANGED <<last_block_doc, assets>>
             ELSE
             \E sc \in RangeScenarios :
             \E r \in {process_block_range(sc)} :
             \E readOk \in IF r.store THEN BOOLEAN ELSE {TRUE} :
             \E write \in IF r.store THEN Writes(last_block_doc, to_block, readOk) ELSE {"ok"} :
               LET st == IF r.store
                         THEN store_last_processed_block(last_block_doc, to_block, readOk, write)
                         ELSE [doc |-> last_block_doc, status |-> "none"]
                   raised == IF r.raised # "none" THEN r.raised
                             ELSE IF st.status = "raised" THEN "store" ELSE "none"
               IN  /\ pbr' = [pc |-> IF raised = "none" THEN "returned" ELSE "raised",
                              from_block |-> from_block, to_block |-> to_block, sc |-> sc,
                              handed |-> r.handed, raised |-> raised, store |-> st.status]
                   /\ last_block_doc' = st.doc
                   /\ assets' = assets \cup r.created
    /\ UNCHANGED <<head, monitor_is_on, purgatory, threads, coveredTo, last, gel, cmp, glp, mst, chains_doc, registered>>

NextRange == call_process_block_range

SpecRange == InitCall /\ [][NextRange]_vars

(***************************************************************************)
(* SpecChunks: one call of get_event_logs(kind, from_block, to_block,      *)
(* chunk_size).                                                            *)
(***************************************************************************)
call_get_event_logs ==
    /\ gel.pc = "idle"
    /\ \E a \in 0..MaxBlock, b \in 0..MaxBlock, c \in 1..MaxChunk :
         gel' = [pc |-> "returned", from_block |-> a, to_block |-> b, size |-> c,
                 queries |-> get_event_logs(a, b, c)]
    /\ UNCHANGED <<last_block_doc, assets, head, monitor_is_on, purgatory, threads, coveredTo,
                   last, pbr, cmp, glp, mst, chains_doc, registered>>

NextChunks == call_get_event_logs

SpecChunks == InitCall /\ [][NextChunks]_vars

(***************************************************************************)
(* SpecProofs: one call of check_metadata_proofs(web3, metadata_proofs).   *)
(* A validator address is an account in one of its spellings: lower case,  *)
(* checksummed, or one that web3.toChecksumAddress rejects.                *)
(***************************************************************************)
Forms == {"lower", "checksum", "bad"}
RawAddresses == {[id |-> i, form |-> f] : i \in 1..MaxIds, f \in Forms}
Rejected == [id |-> 0, form |-> "raised"]

toChecksumAddress(a) ==
    IF a.form = "bad" THEN Rejected ELSE [id |-> a.id, form |-> "checksum"]

\* the sets of at most MaxProofs addresses
AddressSets == {x \in SUBSET RawAddresses : Cardinality(x) <= MaxProofs}

\* os.getenv("ALLOWED_VALIDATORS"): not set, the empty string, text that json.loads
\* rejects, a JSON value set() rejects (a number, null), or a JSON list of addresses
Configurations ==
    {[kind |-> k, entries |-> {}] : k \in {"unset", "empty", "unparsable", "scalar"}}
    \cup {[kind |-> "list", entries |-> x] : x \in AddressSets}

\* the intersection of the addresses as they are spelled
check_metadata_proofs_m(allowed_validators, metadata_proofs) ==
    IF allowed_validators.kind \in {"unset", "empty"} THEN TRUE
    ELSE IF allowed_validators.kind \in {"unparsable", "scalar"} THEN FALSE
    ELSE IF allowed_validators.entries = {} THEN TRUE
    ELSE LET proof_addresses == metadata_proofs
             allowed_addresses == allowed_validators.entries
         IN  IF \E a \in proof_addresses \cup allowed_addresses : a.form = "bad" THEN FALSE
             ELSE proof_addresses \cap allowed_addresses # {}

\* without the try: the addresses that cannot be normalized are left out
check_metadata_proofs_o(allowed_validators, metadata_proofs) ==
    IF allowed_validators.kind \in {"unset", "empty"} THEN TRUE
    ELSE IF allowed_validators.kind \in {"unparsable", "scalar"} THEN FALSE
    ELSE IF allowed_validators.entries = {} THEN TRUE
    ELSE LET proof_addresses == {toChecksumAddress(a) : a \in metadata_proofs}
             allowed_addresses == {toChecksumAddress(a) : a \in allowed_validators.entries}
         IN  (proof_addresses \cap allowed_addresses) \ {Rejected} # {}

\* the addresses are the validator of each proof and each entry of the list;
\* form "bad": web3.toChecksumAddress (or reading args.validator) raises
check_metadata_proofs(allowed_validators, metadata_proofs) ==
    IF allowed_validators.kind \in {"unset", "empty"} THEN TRUE
    ELSE IF allowed_validators.kind \in {"unparsable", "scalar"} THEN FALSE
    ELSE IF allowed_validators.entries = {} THEN TRUE
    ELSE LET proof_addresses == {toChecksumAddress(a) : a \in metadata_proofs}
             allowed_addresses == {toChecksumAddress(a) : a \in allowed_validators.entries}
         IN  IF Rejected \in proof_addresses \cup allowed_addresses THEN FALSE
             ELSE proof_addresses \cap allowed_addresses # {}

call_check_metadata_proofs ==
    /\ cmp.pc = "idle"
    /\ \E cfg \in Configurations, proofs \in AddressSets :
         cmp' = [pc |-> "returned", allowed_validators |-> cfg, metadata_proofs |-> proofs,
                 result |-> check_metadata_proofs(cfg, proofs)]
    /\ UNCHANGED <<last_block_doc, assets, head, monitor_is_on, purgatory, threads, coveredTo,
                   last, pbr, gel, glp, mst, chains_doc, registered>>

NextProofs == call_check_metadata_proofs

SpecProofs == InitCall /\ [][NextProofs]_vars

(***************************************************************************)
(* SpecRegistry: monitors of the chains 1..MaxChains are constructed on    *)
(* the store of this monitor; each registers its chain id.                 *)
(***************************************************************************)
ChainIds == 1..MaxChains

\* EventsMonitor.__init__ of a monitor of chain id, up to add_chain_id_to_chains_list
register_chain(id) ==
    /\ \E readOk \in BOOLEAN, write \in WriteOutcomes :
         LET c == add_chain_id_to_chains_list(chains_doc, id, readOk, write)
         IN  /\ chains_doc' = c.doc
             /\ registered' = IF c.status = "written" THEN registered \cup {id} ELSE registered
             /\ last' = Last("add_chain_id_to_chains_list", FALSE,
                              IF c.status = "raised" THEN "index" ELSE "none",
                              c.status, readOk, write)
    /\ UNCHANGED <<last_block_doc, assets, head, monitor_is_on, purgatory, threads, coveredTo,
                   pbr, gel, cmp, glp, mst>>

NextRegistry == \E id \in ChainIds : register_chain(id)

SpecRegistry == InitCall /\ [][NextRegistry]_vars

(***************************************************************************)
(* SpecRead: one call of get_last_processed_block on a store without or    *)
(* with a checkpoint document.                                             *)
(***************************************************************************)
StoredBlocks == {NotFound} \cup 0..MaxStored

call_get_last_processed_block ==
    /\ glp.pc = "idle"
    /\ \E doc \in StoredBlocks, readOk \in BOOLEAN :
         /\ last_block_doc' = doc
         /\ glp' = [pc |-> "returned", readOk |-> readOk,
                     block |-> get_last_processed_block(doc, readOk)]
    /\ UNCHANGED <<assets, head, monitor_is_on, purgatory, threads, coveredTo, last, pbr, gel,
                   cmp, mst, chains_doc, registered>>

NextRead == call_get_last_processed_block

SpecRead == InitCall /\ [][NextRead]_vars

(***************************************************************************)
(* SpecSleep: _monitor_sleep_time as __init__ computes it from the         *)
(* environment variable OCN_EVENTS_MONITOR_QUITE_TIME, a string or unset.  *)
(***************************************************************************)
default_sleep_time == 10
Unset == <<"unset">>
Digits == <<"0", "1", "2", "9">>
DigitChars == {Digits[i] : i \in 1..Len(Digits)}
Chars == DigitChars \cup {"-", "+", " ", "."}
Strings == UNION {[1..n -> Chars] : n \in 0..MaxLen}

\* the digit a character stands for
DigitValue(c) ==
    IF c = "0" THEN 0 ELSE IF c = "1" THEN 1 ELSE IF c = "2" THEN 2 ELSE 9

RECURSIVE lstrip(_)
lstrip(s) == IF s # <<>> /\ Head(s) = " " THEN lstrip(Tail(s)) ELSE s
RECURSIVE rstrip(_)
rstrip(s) ==
    IF s # <<>> /\ s[Len(s)] = " " THEN rstrip(SubSeq(s, 1, Len(s) - 1)) ELSE s
strip(s) == rstrip(lstrip(s))

RECURSIVE digits_value(_, _)
digits_value(s, acc) ==
    IF s = <<>> THEN acc ELSE digits_value(Tail(s), 10 * acc + DigitValue(Head(s)))

\* int(str): surrounding whitespace, an optional sign, decimal digits; anything
\* else is a ValueError
int(s) ==
    LET t == strip(s)
        signed == t # <<>> /\ t[1] \in {"-", "+"}
        body == IF signed THEN Tail(t) ELSE t
    IN  IF body # <<>> /\ \A i \in 1..Len(body) : body[i] \in DigitChars
        THEN [raised |-> "none",
              value |-> IF signed /\ t[1] = "-" THEN 0 - digits_value(body, 0)
                        ELSE digits_value(body, 0)]
        ELSE [raised |-> "ValueError", value |-> 0]

\* without the max of line 89
monitor_sleep_time_m(env) ==
    LET parsed == IF env = Unset THEN [raised |-> "none", value |-> default_sleep_time]
                  ELSE int(env)
    IN  IF parsed.raised = "ValueError" THEN default_sleep_time ELSE parsed.value

\* os.getenv(name, default_sleep_time) is the default, an int, when the variable is unset
monitor_sleep_time(env) ==
    LET parsed == IF env = Unset THEN [raised |-> "none", value |-> default_sleep_time]
                  ELSE int(env)
        sleep_time == IF parsed.raised = "ValueError" THEN default_sleep_time
                      ELSE parsed.value
    IN  Max(sleep_time, default_sleep_time)

call_monitor_sleep_time ==
    /\ mst.pc = "idle"
    /\ \E env \in Strings \cup {Unset} :
         mst' = [pc |-> "returned", env |-> env,
                 monitor_sleep_time |-> monitor_sleep_time(env)]
    /\ UNCHANGED <<last_block_doc, assets, head, monitor_is_on, purgatory, threads, coveredTo,
                   last, pbr, gel, cmp, glp, chains_doc, registered>>

NextSleep == call_monitor_sleep_time

SpecSleep == InitCall /\ [][NextSleep]_vars

(***************************************************************************)
(* Properties.                                                             *)
(***************************************************************************)

\* C1: the persisted last_block of the chain never decreases.
C1_CheckpointNeverDecreases ==
    [][last_block_doc # NotFound => last_block_doc' >= last_block_doc]_vars

\* the thread that makes the process_block_range call of this step
Caller == CHOOSE th \in Threads : th.pc = "range" /\ CopiesIn(th, threads') < CopiesIn(th, threads)

\* the argument of the call of store_last_processed_block made by this step
StoreArg ==
    IF last'.op = "clean_start" THEN StartBlock ELSE Head(Caller.ranges)[2]

\* C2: once x is persisted, store_last_processed_block(y) that reads the document
\* leaves x in place when y <= x, and persists y when y > x and the store accepts
\* the write.
C2_StoreKeepsLargest ==
    [][(last'.store # "none" /\ last'.readOk /\ last_block_doc # NotFound) =>
          /\ StoreArg <= last_block_doc =>
                (last_block_doc' = last_block_doc /\ last'.store = "noop")
          /\ (StoreArg > last_block_doc /\ last'.write = "ok") =>
                last_block_doc' = StoreArg]_vars

C2_Witness ==
    /\ last.op = "process_block_range"
    /\ last.store = "noop"
    /\ last.readOk
    /\ last_block_doc > StartBlock

\* C3: a clean start whose deletes all succeed leaves no document of the chain in
\* the asset index and the checkpoint at the start block.
C3_CleanStartResets ==
    (last.op = "clean_start" /\ last.raised = "none") =>
        /\ assets = {}
        /\ get_last_processed_block(last_block_doc, TRUE) = StartBlock

\* C6: every block up to the persisted checkpoint was in a completed log query of
\* every event kind.
C6_CheckpointWasScanned ==
    last_block_doc # NotFound => last_block_doc <= coveredTo

C6_Witness ==
    /\ last.op = "process_block_range"
    /\ last.store = "written"
    /\ last_block_doc = head
    /\ head > blockchain_chunk_size

\* the sub-ranges queried (per kind) by the calls of process_block_range
RECURSIVE SubRanges(_)
SubRanges(calls) ==
    IF calls = <<>> THEN <<>>
    ELSE get_event_logs(Head(calls)[1], Head(calls)[2], chunk_size) \o SubRanges(Tail(calls))

\* C8: the sub-ranges an iteration queries for a kind do not overlap.
C8_NoBlockQueriedTwice ==
    \A th \in Threads :
        th.pc = "range" =>
            LET q == SubRanges(th.ranges)
            IN  \A i, j \in 1..Len(q) : i < j => q[i][2] < q[j][1]

\* C9: at most one run_monitor thread is inside an iteration at a time.
C9_OneDriver ==
    \A th \in Threads :
        InIteration(th) =>
            /\ CopiesIn(th, threads) = 1
            /\ \A th2 \in Threads : InIteration(th2) => th2 = th

\* C10: start_events_monitor while _monitor_is_on spawns no thread and changes
\* nothing.
C10_StartWhileRunningIsNoOp ==
    [][(last'.op = "start_events_monitor" /\ monitor_is_on) =>
          UNCHANGED <<threads, monitor_is_on, last_block_doc, assets, head, purgatory,
                      coveredTo>>]_vars

C10_Witness ==
    /\ last.op = "start_events_monitor"
    /\ last.on
    /\ monitor_is_on
    /\ BagCardinality(threads) = 1

\* the raw logs of the call, in the order process_block_range meets them
Logs(k) == pbr.sc.logs[k]
Called == pbr.pc # "idle" /\ pbr.from_block <= pbr.to_block
FetchFails(k, i) ==
    \/ Logs(k)[i].fault = "receipt" /\ k \in {1, 2, 3, 5, 6, 7}
    \/ Logs(k)[i].fault = "decode" /\ k \in {1, 2, 3, 6, 7}

\* C4: when no get_logs call raises, every log whose receipt is fetched and
\* decoded is handed to its processor, whatever happens to the other logs, and
\* store_last_processed_block(to_block) is called.
C4_FetchFailureSkipsOneEvent ==
    (Called /\ pbr.sc.fail = 0) =>
        /\ \A k \in Kinds : \A i \in 1..Len(Logs(k)) :
              ~FetchFails(k, i) => i \in pbr.handed[k]
        /\ pbr.store # "none"

OnlyProcessorFaults ==
    /\ pbr.sc.fail = 0
    /\ \A k \in Kinds : \A i \in 1..Len(Logs(k)) : Logs(k)[i].fault \in {"none", "processor"}

\* C5: no exception of a Processor leaves process_block_range; when the processors
\* are all that raises, every log of every kind is handed to its processor and
\* store_last_processed_block(to_block) is called.
C5_ProcessorFailureIsolated ==
    Called =>
        /\ pbr.raised # "processor"
        /\ OnlyProcessorFaults =>
              /\ \A k \in Kinds : pbr.handed[k] = 1..Len(Logs(k))
              /\ pbr.store # "none"

C5_Witness ==
    /\ Called
    /\ OnlyProcessorFaults
    /\ \E k \in 1..3 :
          /\ Len(Logs(k)) >= 3
          /\ Logs(k)[2].fault = "processor"
          /\ Logs(k)[3].fault = "none"
          /\ 3 \in pbr.handed[k]
          /\ Logs(k + 1) # <<>>
          /\ pbr.handed[k + 1] # {}
    /\ pbr.store = "written"
    /\ last_block_doc = pbr.to_block

\* C7: the get_logs calls of get_event_logs(kind, a, b, c) are contiguous
\* sub-ranges of c blocks, the last one possibly shorter, that start at a and end
\* at b; there is none when a > b.
C7_ChunksPartitionRange ==
    gel.pc = "returned" =>
        LET q == gel.queries
            n == Len(gel.queries)
        IN  IF gel.from_block > gel.to_block THEN n = 0
            ELSE /\ n >= 1
                 /\ q[1][1] = gel.from_block
                 /\ q[n][2] = gel.to_block
                 /\ \A i \in 1..n :
                       /\ q[i][1] <= q[i][2]
                       /\ q[i][2] - q[i][1] + 1 <= gel.size
                       /\ i < n => /\ q[i][2] - q[i][1] + 1 = gel.size
                                   /\ q[i + 1][1] = q[i][2] + 1

C7_Witness ==
    /\ gel.pc = "returned"
    /\ Len(gel.queries) >= 3
    /\ gel.size >= 2
    /\ LET n == Len(gel.queries)
       IN  gel.queries[n][2] - gel.queries[n][1] + 1 < gel.size

\* C11: a run_monitor thread that finds _monitor_is_on cleared at the start of an
\* iteration leaves its loop: the thread ends.
C11_StoppedDriverExits ==
    [][(last'.op = "do_run_monitor" /\ ~monitor_is_on) =>
          BagCardinality(threads') < BagCardinality(threads)]_vars

\* C12: stop_monitor only clears the flag; an iteration that is past the check of
\* _monitor_is_on goes on to its end whatever the flag is; a thread that finds the
\* flag cleared at the start of an iteration makes no query, no processor call
\* and no checkpoint write.
C12_StopIsCooperative ==
    /\ [][(last'.op = "stop_monitor" \/ (last'.op = "do_run_monitor" /\ ~monitor_is_on)) =>
              UNCHANGED <<threads, last_block_doc, assets, coveredTo>>]_vars
    /\ (~monitor_is_on /\ \E th \in Threads : InIteration(th))
          ~> (monitor_is_on \/ \A th \in Threads : ~InIteration(th))

C12_Witness ==
    /\ ~monitor_is_on
    /\ last.op = "process_block_range"
    /\ last.store = "written"
    /\ last_block_doc = head
    /\ BagCardinality(threads) = 1

\* the call's allow-list and proofs
Allowed == cmp.allowed_validators
Proofs == cmp.metadata_proofs
Normalizable == \A a \in Allowed.entries \cup Proofs : a.form # "bad"

\* C13: check_metadata_proofs is true when ALLOWED_VALIDATORS is unset, empty or an
\* empty list, false when it cannot be parsed, and for a non-empty list of
\* addresses true iff a proof's validator is an account of the list, whatever
\* the spelling of the two addresses.
C13_ProofGate ==
    cmp.pc = "returned" =>
        /\ (Allowed.kind \in {"unset", "empty"} \/ (Allowed.kind = "list" /\ Allowed.entries = {}))
              => cmp.result = TRUE
        /\ Allowed.kind \in {"unparsable", "scalar"} => cmp.result = FALSE
        /\ (Allowed.kind = "list" /\ Allowed.entries # {} /\ Normalizable) =>
              cmp.result = (\E p \in Proofs, a \in Allowed.entries : p.id = a.id)

C13_Witness ==
    /\ cmp.pc = "returned"
    /\ Allowed.kind = "list"
    /\ Cardinality(Allowed.entries) = 2
    /\ \E p \in Proofs, a \in Allowed.entries : p.id = a.id /\ p.form # a.form
    /\ \A p \in Proofs : p \notin Allowed.entries
    /\ Normalizable
    /\ cmp.result = TRUE

\* C14: every chain id whose registration was written is in the "chains" document.
C14_RegistryAppendOnly ==
    registered \subseteq chains_doc

\* a get_logs call raises in the process_block_range call of this step
GetLogsRaises == last'.op = "process_block_range" /\ last'.raised = "get_logs"

\* C15: when a get_logs call raises in process_block_range(from, to), the scan of
\* the range is not completed, store_last_processed_block(to) is not called, the
\* checkpoint is unchanged, and the iteration makes no further
\* process_block_range call.
C15_FailedQueryAborts ==
    [][GetLogsRaises =>
          /\ last'.store = "none"
          /\ last_block_doc' = last_block_doc
          /\ coveredTo' = coveredTo
          /\ threads' = Moved(Caller, Scanned)]_vars

\* C15 as stated: moreover the checkpoint, from which the next iteration starts,
\* is the block the failed iteration started from.
C15_RetryFromIterationStart ==
    [][GetLogsRaises =>
          /\ last'.store = "none"
          /\ last_block_doc' = last_block_doc
          /\ get_last_processed_block(last_block_doc', TRUE) = Caller.last_block]_vars

C15_Witness ==
    /\ last.op = "process_block_range"
    /\ last.raised = "get_logs"
    /\ last_block_doc = blockchain_chunk_size
    /\ head > blockchain_chunk_size
    /\ Scanned \in Threads

\* an exception ended the scan or the purgatory refresh of the last step
Raised == last.op \in {"process_block_range", "update_purgatory"} /\ last.raised # "none"
IterationStarted == last.op = "do_run_monitor" /\ last.on

\* C16: an exception in process_current_blocks or in the purgatory refresh does not
\* end the thread: after the first the thread goes on to the purgatory refresh,
\* after the second to the top of its loop; and while the monitor stays on, an
\* iteration is started again.
C16_ExceptionsKeepLoop ==
    /\ [][Raised' =>
             /\ BagCardinality(threads') = BagCardinality(threads)
             /\ last'.op = "process_block_range" => threads' = Moved(Caller, Scanned)
             /\ last'.op = "update_purgatory" => threads' = Moved(Scanned, NewThread)]_vars
    /\ (monitor_is_on /\ Raised) ~> (~monitor_is_on \/ IterationStarted)

C16_Witness ==
    /\ last.op = "update_purgatory"
    /\ last.raised = "update_lists"
    /\ monitor_is_on
    /\ threads = SetToBag({NewThread})

\* es.index raises RequestError in the store_last_processed_block call of this step
WriteRejected == last'.op = "process_block_range" /\ last'.write = "RequestError"

\* C17: when es.index raises RequestError in store_last_processed_block(to), no
\* exception leaves the call, the checkpoint keeps its value, which is below to
\* when the call has read it, and the thread goes on with the iteration.
C17_RejectedWriteIsDropped ==
    [][WriteRejected =>
          /\ last'.raised = "none"
          /\ last'.store = "rejected"
          /\ last_block_doc' = last_block_doc
          /\ last'.readOk => get_last_processed_block(last_block_doc', TRUE) < StoreArg
          /\ threads' = Moved(Caller, Position(Tail(Caller.ranges), Caller.last_block))]_vars

\* C17 as stated: moreover the next iteration scans the range again, so the only
\* thread does not write the checkpoint past the range in the same iteration.
C17_RejectedRangeRescanned ==
    [][(BagCardinality(threads) = 1 /\ last.op = "process_block_range"
          /\ last.store = "rejected") =>
          ~(last'.op = "process_block_range" /\ last'.store = "written")]_vars

C17_Witness ==
    /\ last.op = "process_block_range"
    /\ last.store = "rejected"
    /\ last.readOk
    /\ get_last_processed_block(last_block_doc, TRUE) = StartBlock
    /\ monitor_is_on
    /\ \E th \in Threads : th.pc = "range"

\* C18: get_last_processed_block returns a block number, never an error: the
\* stored last_block when it reads the checkpoint document, the default start
\* block when there is no document.
C18_ReadNeverRaises ==
    glp.pc = "returned" =>
        /\ glp.block # NotFound
        /\ glp.block >= 0
        /\ (glp.readOk /\ last_block_doc # NotFound) => glp.block = last_block_doc
        /\ last_block_doc = NotFound => glp.block = get_defined_block

C18_Witness ==
    /\ glp.pc = "returned"
    /\ glp.readOk
    /\ last_block_doc = NotFound
    /\ glp.block = get_defined_block

\* the threads inside an iteration
Iterating == BagCardinality(threads) - CopiesIn(NewThread, threads)

\* C19: purgatory.update_lists is called in the step that ends an iteration,
\* there if and only if purgatory is enabled, and in no other step: an
\* iteration that found the monitor running ends only with that step (also
\* after a scan that raised), one that found it stopped starts nothing, and
\* a refresh, failing or not, leaves checkpoint, assets and scanned blocks.
C19_RefreshOncePerIteration ==
    [][/\ last'.refreshed => (purgatory /\ last'.op = "update_purgatory")
       /\ last'.op = "update_purgatory" =>
            /\ last'.refreshed = purgatory
            /\ Scanned \in Threads
            /\ threads' = Moved(Scanned, NewThread)
            /\ UNCHANGED <<last_block_doc, assets, coveredTo>>
       /\ last'.op = "do_run_monitor" =>
            /\ Iterating' = Iterating + (IF last'.on THEN 1 ELSE 0)
            /\ ~last'.on => UNCHANGED threads
       /\ last'.op = "process_block_range" => Iterating' = Iterating
       /\ Iterating' < Iterating =>
            (last'.op \in {"update_purgatory", "clean_start", "restart"}
             /\ (last'.op = "update_purgatory" => Iterating' = Iterating - 1))]_vars

C19_Witness ==
    /\ purgatory
    /\ last.op = "update_purgatory"
    /\ last.refreshed
    /\ last.raised = "update_lists"
    /\ last_block_doc = head
    /\ head > blockchain_chunk_size
    /\ assets # {}
    /\ threads = SetToBag({NewThread})

\* C20: with a non-empty parsed allow-list, check_metadata_proofs returns
\* FALSE whenever the validator of some proof or some entry of the list
\* cannot be normalized, whatever the other proofs and entries are.
C20_FailsClosed ==
    (cmp.pc = "returned" /\ Allowed.kind = "list" /\ Allowed.entries # {} /\ ~Normalizable)
        => cmp.result = FALSE

C20_Witness ==
    /\ cmp.pc = "returned"
    /\ Allowed.kind = "list"
    /\ \A a \in Allowed.entries : a.form # "bad"
    /\ \E p \in Proofs : p.form = "bad"
    /\ \E p \in Proofs, a \in Allowed.entries :
         p.form # "bad" /\ toChecksumAddress(p) = toChecksumAddress(a)
    /\ cmp.result = FALSE

\* the decimal numeral of a natural number, and the numbers whose numeral is
\* written with the characters of Digits
RECURSIVE Spellable(_)
Spellable(m) ==
    /\ \E c \in DigitChars : DigitValue(c) = m % 10
    /\ m < 10 \/ Spellable(m \div 10)
RECURSIVE Numeral(_)
Numeral(m) ==
    LET d == <<CHOOSE c \in DigitChars : DigitValue(c) = m % 10>>
    IN  IF m < 10 THEN d ELSE Numeral(m \div 10) \o d
RECURSIVE Pow10(_)
Pow10(k) == IF k = 0 THEN 1 ELSE 10 * Pow10(k - 1)
Repeat(c, k) == [i \in 1..k |-> c]

\* the strings of at most MaxLen characters that spell an integer, with the
\* integer: spaces, a sign, zeros, the numeral, spaces
IntegerSpellings ==
    {x \in {[env |-> Repeat(" ", l) \o sg \o Repeat("0", z) \o Numeral(m) \o Repeat(" ", r),
             value |-> IF sg = <<"-">> THEN 0 - m ELSE m] :
                l \in 0..MaxLen, r \in 0..MaxLen, z \in 0..MaxLen,
                sg \in {<<>>, <<"+">>, <<"-">>},
                m \in {k \in 0..(Pow10(MaxLen) - 1) : Spellable(k)}} :
        Len(x.env) <= MaxLen}

Spelled == {x \in IntegerSpellings : x.env = mst.env}

====
